---------------------------- MODULE Spec2Model ----------------------------
(***************************************************************************)
(* A model of contamination/check_contamination.py: the tokenizer, the     *)
(* Jaccard scorer, the entry matcher (check_entry), the reference loader   *)
(* and the multiprocessing orchestration of main().                        *)
(*                                                                         *)
(* Text is a sequence of one-character strings.  A Python float that is    *)
(* the quotient of two small integers is the reduced fraction <<n, d>>:    *)
(* distinct fractions with denominators this small round to distinct       *)
(* doubles and rounding is monotone, so = and >= on the fractions are      *)
(* = and >= on the doubles.                                                *)
(***************************************************************************)
EXTENDS Integers, Sequences, FiniteSets, TLC

VARIABLES
    \* ---- main(): configuration and inputs (fixed through a run)
    cfg,              \* args: reference_type, q_key, a_key, threshold, num_processes
    refSource,        \* the reference JSONL file's lines, or the HF dataset's entries
    inputFiles,       \* the input JSONL files, each a sequence of lines
    \* ---- main(): program state
    pc,               \* where main() is: "load", "run", "done", "crashed"
    refIdx,           \* how many reference lines / entries the loader has consumed
    reference_data,   \* the reference collection
    stdout,           \* the diagnostics printed so far, in order
    cursor,           \* how many (file, line) pairs get_all_lines has consumed
    submitted,        \* how many tasks the pool has been handed
    length,           \* the iterator's _length: -1 until the generator is exhausted
    taskq,            \* tasks handed to the pool and not yet taken by a worker
    workers,          \* per worker process: the task it is running, or NoTask
    outq,             \* results put by the workers, in completion order
    arrived,          \* task numbers of the results main() has received, in order
    all_contaminated, \* the accumulated report
    error,            \* the exception that ended main(), or NoError
    output,           \* the JSON written to args.output, or NoFile
    \* ---- one call of check_entry (the matcher on its own)
    matcher,
    \* ---- tokenize and jaccard_similarity on their own
    scorer

vars == <<cfg, refSource, inputFiles, pc, refIdx, reference_data, stdout, cursor,
          submitted, length, taskq, workers, outq, arrived, all_contaminated,
          error, output, matcher, scorer>>

mainVars == <<cfg, refSource, inputFiles, pc, refIdx, reference_data, stdout, cursor,
              submitted, length, taskq, workers, outq, arrived, all_contaminated,
              error, output>>

-----------------------------------------------------------------------------
(* Bounds of the model *)

\* longest text the scorer specification draws
MaxTextLen == 3
\* most reference entries the matcher specification draws
MaxRef == 2
\* most lines or entries of the reference source the loader specification draws
MaxRefLines == 3
\* most lines over all the input files of a run
MaxLines == 2
\* largest --num-processes drawn
MaxProcs == 2

-----------------------------------------------------------------------------
(* Characters and text *)

\* \w of the regular expression (letters, digits, underscore)
WordChars == {"a", "b", "c", "A", "B", "C", "0", "1", "2", "4", "_"}

\* \s of the regular expression, and the characters str.strip / str.split drop
SpaceChars == {" ", "\t", "\n"}

\* str.lower, character by character
LowerChar(c) ==
    CASE c = "A" -> "a"
      [] c = "B" -> "b"
      [] c = "C" -> "c"
      [] OTHER -> c

Lower(s) == [i \in DOMAIN s |-> LowerChar(s[i])]

RECURSIVE LStrip(_)
LStrip(s) ==
    IF s # <<>> /\ Head(s) \in SpaceChars THEN LStrip(Tail(s)) ELSE s

RECURSIVE RStrip(_)
RStrip(s) ==
    IF s # <<>> /\ s[Len(s)] \in SpaceChars
    THEN RStrip(SubSeq(s, 1, Len(s) - 1))
    ELSE s

\* str.strip()
Strip(s) == RStrip(LStrip(s))

\* re.sub(r"[^\w\s]", "", text): delete what is neither \w nor \s
DropPunctuation(s) == SelectSeq(s, LAMBDA c : c \in WordChars \cup SpaceChars)

\* str.split(): the maximal runs of non-space characters; cur is the run being read
RECURSIVE SplitWords(_, _)
SplitWords(s, cur) ==
    IF s = <<>>
    THEN IF cur = <<>> THEN {} ELSE {cur}
    ELSE IF Head(s) \in SpaceChars
         THEN (IF cur = <<>> THEN {} ELSE {cur}) \cup SplitWords(Tail(s), <<>>)
         ELSE SplitWords(Tail(s), Append(cur, Head(s)))

\* tokenize(text)
tokenize(text) == SplitWords(DropPunctuation(Lower(text)), <<>>)

-----------------------------------------------------------------------------
(* Floats that are quotients of small integers *)

RECURSIVE GCD(_, _)
GCD(a, b) == IF b = 0 THEN a ELSE GCD(b, a % b)

\* the float n / d (d > 0)
Float(n, d) == LET g == GCD(n, d) IN <<n \div g, d \div g>>

FloatOne == <<1, 1>>
FloatZero == <<0, 1>>

\* x >= y on floats (denominators are positive)
FloatGe(x, y) == x[1] * y[2] >= y[1] * x[2]

\* jaccard_similarity(set1, set2)
JaccardNoEmptyRule(A, B) ==
    LET intersection == Cardinality(A \cap B)
        union == Cardinality(A \cup B)
    IN  IF union # 0 THEN Float(intersection, union) ELSE FloatZero

jaccard_similarity(A, B) ==
    IF A = {} /\ B = {}
    THEN FloatOne
    ELSE LET intersection == Cardinality(A \cap B)
             union == Cardinality(A \cup B)
         IN  IF union # 0 THEN Float(intersection, union) ELSE FloatZero


-----------------------------------------------------------------------------
(* JSON documents and lines *)

\* a JSON string value, and a JSON value that is not a string (number, null, ...)
Str(s) == [t |-> "str", s |-> s]
NonStr == [t |-> "other", s |-> <<>>]

EmptyDict == [k \in {} |-> NonStr]

\* what json.loads returns: an object (a dict), an array or string (a sequence
\* that has `in` but neither .get nor string keys; elems are the strings it
\* holds), or a scalar (number, true, false, null)
Obj(d) == [t |-> "obj", d |-> d, elems |-> {}]
Arr(elems) == [t |-> "arr", d |-> EmptyDict, elems |-> elems]
Scalar == [t |-> "scalar", d |-> EmptyDict, elems |-> {}]
NoDoc == [t |-> "none", d |-> EmptyDict, elems |-> {}]

\* a line of a file: blank (whitespace only), text that is not JSON, or JSON
BlankLine == [kind |-> "blank", doc |-> NoDoc]
MalformedLine == [kind |-> "malformed", doc |-> NoDoc]
JsonLine(doc) == [kind |-> "json", doc |-> doc]

\* json.loads(line.strip()) raises JSONDecodeError on blank and malformed text
JsonLoadsFails(line) == line.kind # "json"
JsonLoads(line) == line.doc

\* `key in entry`: dict membership, sequence membership; a scalar raises TypeError
InRaises(entry) == entry.t = "scalar"
In(key, entry) ==
    CASE entry.t = "obj" -> key \in DOMAIN entry.d
      [] entry.t = "arr" -> key \in entry.elems
      [] OTHER -> FALSE

\* dict.get(key, "")
Get(d, key) == IF key \in DOMAIN d THEN d[key] ELSE Str(<<>>)

-----------------------------------------------------------------------------
(* check_entry *)

Return(value, printed) == [ok |-> TRUE, value |-> value, exc |-> "", printed |-> printed]
Raise(exc) == [ok |-> FALSE, value |-> <<>>, exc |-> exc, printed |-> <<>>]

InvalidJsonMsg(input_file, line) ==
    [msg |-> "Invalid JSON in", file |-> input_file, line |-> line]

\* the three rules on one reference entry, first that fires wins (lines 56-70):
\* the (type, score) appended for it, as a sequence of length 0 or 1
MatchRulesNoContinue(input_q, input_a, ref_q, ref_a, threshold) ==
    LET q_sim == jaccard_similarity(tokenize(ref_q), tokenize(input_q))
        a_sim == jaccard_similarity(tokenize(ref_a), tokenize(input_a))
    IN  (IF input_q = ref_q \/ input_a = ref_a
         THEN <<[type |-> "exact_match", score |-> FloatOne]>> ELSE <<>>)
        \o (IF FloatGe(q_sim, threshold)
            THEN <<[type |-> "jaccard_question", score |-> q_sim]>> ELSE <<>>)
        \o (IF FloatGe(a_sim, threshold)
            THEN <<[type |-> "jaccard_answer", score |-> a_sim]>> ELSE <<>>)

MatchRulesWrongScore(input_q, input_a, ref_q, ref_a, threshold) ==
    LET q_sim == jaccard_similarity(tokenize(ref_q), tokenize(input_q))
        a_sim == jaccard_similarity(tokenize(ref_a), tokenize(input_a))
    IN  IF input_q = ref_q \/ input_a = ref_a
        THEN <<[type |-> "exact_match", score |-> FloatOne]>>
        ELSE IF FloatGe(q_sim, threshold)
        THEN <<[type |-> "jaccard_question", score |-> q_sim]>>
        ELSE IF FloatGe(a_sim, threshold)
        THEN <<[type |-> "jaccard_answer", score |-> q_sim]>>
        ELSE <<>>

MatchRules(input_q, input_a, ref_q, ref_a, threshold) ==
    LET q_sim == jaccard_similarity(tokenize(ref_q), tokenize(input_q))
        a_sim == jaccard_similarity(tokenize(ref_a), tokenize(input_a))
    IN  IF input_q = ref_q \/ input_a = ref_a
        THEN <<[type |-> "exact_match", score |-> FloatOne]>>
        ELSE IF FloatGe(q_sim, threshold)
        THEN <<[type |-> "jaccard_question", score |-> q_sim]>>
        ELSE IF FloatGe(a_sim, threshold)
        THEN <<[type |-> "jaccard_answer", score |-> a_sim]>>
        ELSE <<>>

\* ref_entry[q_key].strip() and ref_entry[a_key].strip() (lines 51-52) raise
\* when the entry is a sequence (TypeError) or the value is not a string
\* (AttributeError)
RefEntryRaises(ref_entry, q_key, a_key) ==
    CASE ref_entry.t # "obj" -> "TypeError"
      [] ref_entry.t = "obj" /\ q_key \notin DOMAIN ref_entry.d -> "KeyError"
      [] ref_entry.t = "obj" /\ q_key \in DOMAIN ref_entry.d
            /\ ref_entry.d[q_key].t # "str" -> "AttributeError"
      [] ref_entry.t = "obj" /\ q_key \in DOMAIN ref_entry.d
            /\ ref_entry.d[q_key].t = "str"
            /\ a_key \notin DOMAIN ref_entry.d -> "KeyError"
      [] ref_entry.t = "obj" /\ q_key \in DOMAIN ref_entry.d
            /\ ref_entry.d[q_key].t = "str"
            /\ a_key \in DOMAIN ref_entry.d
            /\ ref_entry.d[a_key].t # "str" -> "AttributeError"
      [] OTHER -> ""

\* the body of the for loop (lines 50-70), entry by entry; an exception leaves
\* the loop and the function
RECURSIVE MatchLoop(_, _, _, _, _, _, _, _)
MatchLoop(ref_data, i, contaminated, input_entry, input_q, input_a, keys, threshold) ==
    IF i > Len(ref_data)
    THEN Return(contaminated, <<>>)
    ELSE LET ref_entry == ref_data[i]
             exc == RefEntryRaises(ref_entry, keys[1], keys[2])
         IN  IF exc # ""
             THEN Raise(exc)
             ELSE LET ref_q == Strip(ref_entry.d[keys[1]].s)
                      ref_a == Strip(ref_entry.d[keys[2]].s)
                      hit == MatchRules(input_q, input_a, ref_q, ref_a, threshold)
                      recs == [k \in DOMAIN hit |->
                                 <<ref_entry, input_entry, hit[k].type, hit[k].score>>]
                  IN  MatchLoop(ref_data, i + 1, contaminated \o recs,
                                input_entry, input_q, input_a, keys, threshold)

\* the try block of check_entry (lines 44-70): what it leaves in contaminated,
\* or the exception that leaves it
check_entry_try(ref_data, line_file, q_key, a_key, threshold) ==
    LET line == line_file[1]
    IN  IF JsonLoadsFails(line)
        THEN Raise("JSONDecodeError")
        ELSE LET input_entry == JsonLoads(line)
             IN  IF input_entry.t # "obj"
                 THEN Raise("AttributeError")
                 ELSE LET qv == Get(input_entry.d, "question")
                          av == Get(input_entry.d, "answer")
                      IN  IF qv.t # "str" \/ av.t # "str"
                          THEN Raise("AttributeError")
                          ELSE MatchLoop(ref_data, 1, <<>>, input_entry,
                                         Strip(qv.s), Strip(av.s),
                                         <<q_key, a_key>>, threshold)

\* check_entry(ref_data, line_file, q_key, a_key, threshold): what it returns
\* or raises, and what it prints; only json.JSONDecodeError is caught
check_entry_uncaught(ref_data, line_file, q_key, a_key, threshold) ==
    check_entry_try(ref_data, line_file, q_key, a_key, threshold)

check_entry(ref_data, line_file, q_key, a_key, threshold) ==
    LET tried == check_entry_try(ref_data, line_file, q_key, a_key, threshold)
    IN  IF ~tried.ok /\ tried.exc = "JSONDecodeError"
        THEN Return(<<>>, <<InvalidJsonMsg(line_file[2], line_file[1])>>)
        ELSE tried

-----------------------------------------------------------------------------
(* The inputs the specifications draw *)

\* a field left out of a dict under construction
Missing == [t |-> "missing", s |-> <<>>]

\* the dict {k1: v1, k2: v2}, without the keys whose value is Missing
MkDict(k1, v1, k2, v2) ==
    [k \in {x \in {k1, k2} : (IF x = k1 THEN v1 ELSE v2) # Missing} |->
        IF k = k1 THEN v1 ELSE v2]

\* --jaccard-threshold: -0.5, 0, 0.5, the default 0.8, and 1.5
Thresholds == {<<-1, 2>>, <<0, 1>>, <<1, 2>>, <<4, 5>>, <<3, 2>>}
DefaultThreshold == <<4, 5>>

\* --question-key / --answer-key
KeyConfigs == {<<"question", "answer">>, <<"problem", "solution">>}

\* candidate lines handed to check_entry
CandQuestions ==
    {Str(<<" ", "a", " ", "b", "\n">>), Str(<<"A", " ", "b", "!">>), Str(<<"!">>),
     Str(<<"c">>), NonStr, Missing}
CandAnswers ==
    {Str(<<"4">>), Str(<<"b", " ", "c">>), Str(<<"a">>), NonStr, Missing}
CandLines ==
    {JsonLine(Obj(MkDict("question", q, "answer", a))) :
        q \in CandQuestions, a \in CandAnswers}
    \cup {MalformedLine, JsonLine(Scalar), JsonLine(Arr({"question"}))}

\* reference entries the loader can leave in reference_data: dicts with both
\* keys (whatever their values), and sequences that hold both keys
RefQuestions == {Str(<<"a", " ", "b">>), Str(<<"a", " ", "b", " ", "c", " ">>), Str(<<>>), NonStr}
RefAnswers == {Str(<<"4">>), Str(<<"c", " ", "b">>), NonStr}
RefEntries(keys) ==
    {Obj(MkDict(keys[1], q, keys[2], a)) : q \in RefQuestions, a \in RefAnswers}
    \cup {Arr({keys[1], keys[2]})}

SeqsUpTo(S, n) == UNION {[1..k -> S] : k \in 0..n}

\* texts over a small alphabet
ScorerAlphabet == {"a", "B", " ", "!"}
Texts == SeqsUpTo(ScorerAlphabet, MaxTextLen)

NoFile == [written |-> FALSE, data |-> <<>>]
NoError == [exc |-> "", i |-> 0]
NoTask == [i |-> 0, line_file |-> <<BlankLine, "">>]

DefaultCfg ==
    [reference_type |-> "jsonl", q_key |-> "question", a_key |-> "answer",
     threshold |-> DefaultThreshold, num_processes |-> 1]

MatcherIdle == [line_file |-> <<MalformedLine, "">>, called |-> FALSE, ret |-> Return(<<>>, <<>>)]
ScorerIdle ==
    [text1 |-> <<>>, text2 |-> <<>>, set1 |-> {}, set2 |-> {},
     sim |-> FloatZero, sim_rev |-> FloatZero, step |-> "idle"]

\* main() not running: the state of its variables in the specifications of
\* the pure functions
MainIdle ==
    /\ refSource = <<>>
    /\ inputFiles = <<>>
    /\ pc = "idle"
    /\ refIdx = 0
    /\ stdout = <<>>
    /\ cursor = 0
    /\ submitted = 0
    /\ length = -1
    /\ taskq = <<>>
    /\ workers = <<>>
    /\ outq = <<>>
    /\ arrived = <<>>
    /\ all_contaminated = <<>>
    /\ error = NoError
    /\ output = NoFile

-----------------------------------------------------------------------------
(* SpecScorer: tokenize and jaccard_similarity on pairs of texts *)

InitScorer ==
    /\ MainIdle
    /\ cfg = DefaultCfg
    /\ reference_data = <<>>
    /\ matcher = MatcherIdle
    /\ \E t1 \in Texts, t2 \in Texts :
          scorer = [ScorerIdle EXCEPT !.text1 = t1, !.text2 = t2, !.step = "text"]

\* input_q_tokens = tokenize(input_q), ref_q_tokens = tokenize(ref_q)
ScorerTokenize ==
    /\ scorer.step = "text"
    /\ scorer' = [scorer EXCEPT !.set1 = tokenize(scorer.text1),
                                !.set2 = tokenize(scorer.text2),
                                !.step = "tokens"]
    /\ UNCHANGED <<mainVars, matcher>>

\* q_sim = jaccard_similarity(ref_q_tokens, input_q_tokens), both ways round
ScorerScore ==
    /\ scorer.step = "tokens"
    /\ scorer' = [scorer EXCEPT !.sim = jaccard_similarity(scorer.set1, scorer.set2),
                                !.sim_rev = jaccard_similarity(scorer.set2, scorer.set1),
                                !.step = "scored"]
    /\ UNCHANGED <<mainVars, matcher>>

NextScorer == ScorerTokenize \/ ScorerScore

SpecScorer == InitScorer /\ [][NextScorer]_vars

-----------------------------------------------------------------------------
(* SpecMatcher: one call of check_entry *)

InitMatcher ==
    /\ MainIdle
    /\ scorer = ScorerIdle
    /\ \E keys \in KeyConfigs, th \in Thresholds :
          /\ cfg = [DefaultCfg EXCEPT !.q_key = keys[1], !.a_key = keys[2],
                                      !.threshold = th]
          /\ reference_data \in SeqsUpTo(RefEntries(keys), MaxRef)
    /\ \E line \in CandLines :
          matcher = [MatcherIdle EXCEPT !.line_file = <<line, "in.jsonl">>]

\* worker_func(line_file): check_entry with the reference data, keys and
\* threshold bound by partial()
CallCheckEntry ==
    /\ ~matcher.called
    /\ matcher' = [matcher EXCEPT
                     !.called = TRUE,
                     !.ret = check_entry(reference_data, matcher.line_file,
                                         cfg.q_key, cfg.a_key, cfg.threshold)]
    /\ UNCHANGED <<mainVars, scorer>>

NextMatcher == CallCheckEntry

SpecMatcher == InitMatcher /\ [][NextMatcher]_vars

-----------------------------------------------------------------------------
(* main(): the reference loader (lines 147-184) *)

Printed(msg) == Append(stdout, msg)

\* reference_data.append(entry) (lines 166, 180)
KeepEntryDedup(ref_data, entry) ==
    IF \E k \in DOMAIN ref_data : ref_data[k] = entry THEN ref_data ELSE Append(ref_data, entry)
KeepEntry(ref_data, entry) == Append(ref_data, entry)

\* json.loads(line.strip()) of a reference line, then the two `in` tests
\* (lines 163-168): the line is skipped with a message when it is not JSON,
\* appended when it has both keys, and skipped silently otherwise; `in` on a
\* scalar raises TypeError, which nothing catches
LoadJsonlLine ==
    /\ pc = "load"
    /\ cfg.reference_type = "jsonl"
    /\ refIdx < Len(refSource)
    /\ LET line == refSource[refIdx + 1]
           entry == JsonLoads(line)
       IN  IF JsonLoadsFails(line)
           THEN /\ stdout' = Printed([msg |-> "Invalid JSON in reference JSONL",
                                    file |-> "", line |-> line])
                /\ refIdx' = refIdx + 1
                /\ UNCHANGED <<reference_data, pc, error>>
           ELSE IF InRaises(entry)
           THEN /\ pc' = "crashed"
                /\ error' = [exc |-> "TypeError", i |-> 0]
                /\ UNCHANGED <<reference_data, stdout, refIdx>>
           ELSE /\ reference_data' =
                      IF In(cfg.q_key, entry) /\ In(cfg.a_key, entry)
                      THEN KeepEntry(reference_data, entry)
                      ELSE reference_data
                /\ refIdx' = refIdx + 1
                /\ UNCHANGED <<stdout, pc, error>>
    /\ UNCHANGED <<cfg, refSource, inputFiles, cursor, submitted, length, taskq,
                   workers, outq, arrived, all_contaminated, output, matcher, scorer>>

\* one entry of the Hugging Face dataset (lines 178-182): appended as a dict of
\* just the two keys, or reported
LoadHfEntry ==
    /\ pc = "load"
    /\ cfg.reference_type = "hf"
    /\ refIdx < Len(refSource)
    /\ LET entry == refSource[refIdx + 1]
       IN  IF In(cfg.q_key, entry) /\ In(cfg.a_key, entry)
           THEN /\ reference_data' =
                      KeepEntry(reference_data,
                                Obj(MkDict(cfg.q_key, entry.d[cfg.q_key],
                                           cfg.a_key, entry.d[cfg.a_key])))
                /\ UNCHANGED stdout
           ELSE /\ stdout' = Printed([msg |-> "Entry missing keys",
                                    file |-> "", line |-> JsonLine(entry)])
                /\ UNCHANGED reference_data
    /\ refIdx' = refIdx + 1
    /\ UNCHANGED <<cfg, refSource, inputFiles, pc, cursor, submitted, length, taskq,
                   workers, outq, arrived, all_contaminated, error, output,
                   matcher, scorer>>

\* the loop is over: "Loaded n reference entries.", "Checking n input files.",
\* "Total input entries to process: n" (lines 184-194), and the pool is created
\* (line 198)
LoadDone ==
    /\ pc = "load"
    /\ refIdx = Len(refSource)
    /\ stdout' = stdout \o <<[msg |-> "Loaded", file |-> "", line |-> BlankLine],
                              [msg |-> "Checking", file |-> "", line |-> BlankLine],
                              [msg |-> "Total input entries", file |-> "", line |-> BlankLine]>>
    /\ pc' = "run"
    /\ UNCHANGED <<cfg, refSource, inputFiles, refIdx, reference_data, cursor,
                   submitted, length, taskq, workers, outq, arrived,
                   all_contaminated, error, output, matcher, scorer>>

-----------------------------------------------------------------------------
(* get_all_lines and the pool (lines 76-81, 196-212) *)

RECURSIVE Flatten(_)
Flatten(seqs) == IF seqs = <<>> THEN <<>> ELSE Head(seqs) \o Flatten(Tail(seqs))

FileName(f) == IF f = 1 THEN "in1.jsonl" ELSE "in2.jsonl"

\* every (line, input_file) pair get_all_lines visits, in its order: the files
\* in list order, the lines of each in file order
AllLines(files) ==
    Flatten([f \in DOMAIN files |->
                [k \in DOMAIN files[f] |-> <<files[f][k], FileName(f)>>]])

\* `if line.strip()` (line 80)
YieldsAll(line) == TRUE
Yields(line) == line.kind # "blank"

\* the positions after `from` of the pairs get_all_lines still yields
Pending(files, from) ==
    LET all == AllLines(files)
    IN  {k \in DOMAIN all : k > from /\ Yields(all[k][1])}

Min(S) == CHOOSE x \in S : \A y \in S : x <= y

\* the pool's task thread takes the next pair from get_all_lines (skipping the
\* blank lines before it) and queues it as task number submitted + 1
SubmitTask ==
    /\ pc = "run"
    /\ length = -1
    /\ Pending(inputFiles, cursor) # {}
    /\ LET k == Min(Pending(inputFiles, cursor))
       IN  /\ cursor' = k
           /\ submitted' = submitted + 1
           /\ taskq' = Append(taskq, [i |-> submitted + 1,
                                      line_file |-> AllLines(inputFiles)[k]])
    /\ UNCHANGED <<cfg, refSource, inputFiles, pc, refIdx, reference_data, stdout,
                   length, workers, outq, arrived, all_contaminated, error, output,
                   matcher, scorer>>

\* get_all_lines is exhausted: the iterator learns how many results to expect
GeneratorExhausted ==
    /\ pc = "run"
    /\ length = -1
    /\ Pending(inputFiles, cursor) = {}
    /\ cursor' = Len(AllLines(inputFiles))
    /\ length' = submitted
    /\ UNCHANGED <<cfg, refSource, inputFiles, pc, refIdx, reference_data, stdout,
                   submitted, taskq, workers, outq, arrived, all_contaminated,
                   error, output, matcher, scorer>>

\* an idle worker process takes the oldest queued task
WorkerTake(w) ==
    /\ pc = "run"
    /\ workers[w] = NoTask
    /\ taskq # <<>>
    /\ workers' = [workers EXCEPT ![w] = Head(taskq)]
    /\ taskq' = Tail(taskq)
    /\ UNCHANGED <<cfg, refSource, inputFiles, pc, refIdx, reference_data, stdout,
                   cursor, submitted, length, outq, arrived, all_contaminated,
                   error, output, matcher, scorer>>

\* the worker runs worker_func on its task and puts (task number, success,
\* value or exception) on the result queue; check_entry prints in the worker
WorkerFinish(w) ==
    /\ pc = "run"
    /\ workers[w] # NoTask
    /\ \E ret \in {check_entry(reference_data, workers[w].line_file,
                                 cfg.q_key, cfg.a_key, cfg.threshold)} :
           /\ stdout' = stdout \o ret.printed
           /\ outq' = Append(outq, [i |-> workers[w].i, ok |-> ret.ok,
                                    value |-> ret.value, exc |-> ret.exc])
    /\ workers' = [workers EXCEPT ![w] = NoTask]
    /\ UNCHANGED <<cfg, refSource, inputFiles, pc, refIdx, reference_data, cursor,
                   submitted, length, taskq, arrived, all_contaminated, error,
                   output, matcher, scorer>>

\* all_contaminated.extend(res) (line 212)
Extend(report, res) == report \o res

\* main() takes the next result off the iterator (lines 209-212): a value
\* extends the report, an exception is raised again in main() and ends it
\* (the pool is terminated, nothing is written)
ReceiveDrain ==
    /\ pc = "run"
    /\ outq # <<>>
    /\ IF \A k \in DOMAIN outq : outq[k].ok
       THEN /\ all_contaminated' = Extend(all_contaminated, Head(outq).value)
            /\ arrived' = arrived \o [k \in DOMAIN outq |-> outq[k].i]
            /\ UNCHANGED <<pc, error>>
       ELSE /\ pc' = "crashed"
            /\ error' = [exc |-> "AttributeError", i |-> Head(outq).i]
            /\ UNCHANGED <<all_contaminated, arrived>>
    /\ outq' = <<>>
    /\ UNCHANGED <<cfg, refSource, inputFiles, refIdx, reference_data, stdout,
                   cursor, submitted, length, taskq, workers, output, matcher, scorer>>

Receive ==
    /\ pc = "run"
    /\ outq # <<>>
    /\ LET res == Head(outq)
       IN  IF res.ok
           THEN /\ all_contaminated' = Extend(all_contaminated, res.value)
                /\ arrived' = Append(arrived, res.i)
                /\ UNCHANGED <<pc, error>>
           ELSE /\ pc' = "crashed"
                /\ error' = [exc |-> res.exc, i |-> res.i]
                /\ UNCHANGED <<all_contaminated, arrived>>
    /\ outq' = Tail(outq)
    /\ UNCHANGED <<cfg, refSource, inputFiles, refIdx, reference_data, stdout,
                   cursor, submitted, length, taskq, workers, output, matcher, scorer>>

\* output_data (lines 215-219)
OutputData(report) ==
    [k \in DOMAIN report |->
        [reference_entry |-> report[k][1], input_entry |-> report[k][2],
         type |-> report[k][3], score |-> report[k][4]]]

\* the iterator stops when every expected result has arrived; main() writes the
\* report (lines 214-226)
Save ==
    /\ pc = "run"
    /\ length # -1
    /\ Len(arrived) = length
    /\ output' = [written |-> TRUE, data |-> OutputData(all_contaminated)]
    /\ stdout' = Printed([msg |-> "Found", file |-> "", line |-> BlankLine])
    /\ pc' = "done"
    /\ UNCHANGED <<cfg, refSource, inputFiles, refIdx, reference_data, cursor,
                   submitted, length, taskq, workers, outq, arrived,
                   all_contaminated, error, matcher, scorer>>

-----------------------------------------------------------------------------
(* Spec: a run of main() *)

RefE1 == Obj(MkDict("question", Str(<<"a", " ", "b">>), "answer", Str(<<"4">>)))
RefE2 == Obj(MkDict("question", Str(<<"a", " ", "b", " ", "c", " ">>),
                    "answer", Str(<<"c", " ", "b">>)))
RefNoAnswer == Obj(MkDict("question", Str(<<"c">>), "answer", Missing))
RefNonStr == Obj(MkDict("question", Str(<<"c">>), "answer", NonStr))
RefWithId ==
    Obj([k \in {"question", "answer", "id"} |->
            CASE k = "question" -> Str(<<"a", " ", "b">>)
              [] k = "answer" -> Str(<<"4">>)
              [] OTHER -> NonStr])

\* the reference sources a run draws: a JSONL file, an HF dataset, and a JSONL
\* file with a record whose answer is a number
MainReferences ==
    {<<"jsonl", <<JsonLine(RefE1), MalformedLine, JsonLine(RefNoAnswer), JsonLine(RefE2)>>>>,
     <<"hf", <<RefWithId, RefNoAnswer, RefE2>>>>,
     <<"jsonl", <<JsonLine(RefE1), JsonLine(RefNonStr)>>>>}

\* the lines of the input files a run draws
GoodLine1 ==
    JsonLine(Obj(MkDict("question", Str(<<" ", "a", " ", "b", "\n">>),
                        "answer", Str(<<"c", " ", "b">>))))
GoodLine2 ==
    JsonLine(Obj(MkDict("question", Str(<<"c">>), "answer", Str(<<"b", " ", "c">>))))
MainLines == {BlankLine, MalformedLine, JsonLine(Scalar), GoodLine1, GoodLine2}

\* two input files with at most MaxLines lines between them
MainInputs ==
    {<<f1, f2>> : f1 \in SeqsUpTo(MainLines, MaxLines),
                  f2 \in SeqsUpTo(MainLines, MaxLines)}

Init ==
    /\ matcher = MatcherIdle
    /\ scorer = ScorerIdle
    /\ \E r \in MainReferences, n \in 1..MaxProcs :
          /\ cfg = [DefaultCfg EXCEPT !.reference_type = r[1], !.num_processes = n]
          /\ refSource = r[2]
          /\ workers = [w \in 1..n |-> NoTask]
    /\ inputFiles \in {fs \in MainInputs : Len(fs[1]) + Len(fs[2]) <= MaxLines}
    /\ pc = "load"
    /\ refIdx = 0
    /\ reference_data = <<>>
    /\ stdout = <<>>
    /\ cursor = 0
    /\ submitted = 0
    /\ length = -1
    /\ taskq = <<>>
    /\ outq = <<>>
    /\ arrived = <<>>
    /\ all_contaminated = <<>>
    /\ error = NoError
    /\ output = NoFile

Next ==
    \/ LoadJsonlLine
    \/ LoadHfEntry
    \/ LoadDone
    \/ SubmitTask
    \/ GeneratorExhausted
    \/ \E w \in DOMAIN workers : WorkerTake(w)
    \/ \E w \in DOMAIN workers : WorkerFinish(w)
    \/ Receive
    \/ Save

Spec == Init /\ [][Next]_vars

-----------------------------------------------------------------------------
(* SpecLoader: the reference loader on every short reference source *)

LoaderDocs ==
    {RefE1, RefWithId, RefNoAnswer, RefNonStr,
     Obj(MkDict("problem", Str(<<"a">>), "solution", Str(<<"4">>))),
     Obj(MkDict("question", Missing, "answer", Str(<<"4">>))),
     Obj(EmptyDict)}

LoaderLines ==
    {JsonLine(d) : d \in LoaderDocs}
    \cup {MalformedLine, BlankLine, JsonLine(Scalar),
          JsonLine(Arr({"question", "answer"})), JsonLine(Arr({"question"}))}

InitLoader ==
    /\ matcher = MatcherIdle
    /\ scorer = ScorerIdle
    /\ \E keys \in KeyConfigs, type \in {"jsonl", "hf"} :
          /\ cfg = [DefaultCfg EXCEPT !.reference_type = type,
                                      !.q_key = keys[1], !.a_key = keys[2]]
          /\ refSource \in IF type = "jsonl"
                           THEN SeqsUpTo(LoaderLines, MaxRefLines)
                           ELSE SeqsUpTo(LoaderDocs, MaxRefLines)
    /\ inputFiles = <<<<>>, <<>>>>
    /\ workers = [w \in 1..1 |-> NoTask]
    /\ pc = "load"
    /\ refIdx = 0
    /\ reference_data = <<>>
    /\ stdout = <<>>
    /\ cursor = 0
    /\ submitted = 0
    /\ length = -1
    /\ taskq = <<>>
    /\ outq = <<>>
    /\ arrived = <<>>
    /\ all_contaminated = <<>>
    /\ error = NoError
    /\ output = NoFile

NextLoader == LoadJsonlLine \/ LoadHfEntry \/ LoadDone

SpecLoader == InitLoader /\ [][NextLoader]_vars

-----------------------------------------------------------------------------
(* Properties of tokenize and jaccard_similarity (SpecScorer) *)

\* C10: jaccard_similarity(A, A) = 1.0 for every token set A, the empty set
\* included, so jaccard(tokenize(s), tokenize(s)) = 1.0 for every text s;
\* jaccard_similarity(A, B) = jaccard_similarity(B, A); and the similarity of
\* the empty set and a non-empty set is 0.0.
C10_JaccardReflexiveSymmetric ==
    scorer.step = "scored" =>
        /\ scorer.sim = scorer.sim_rev
        /\ (scorer.text1 = scorer.text2 => scorer.sim = FloatOne)
        /\ (scorer.set1 = scorer.set2 => scorer.sim = FloatOne)
        /\ (scorer.set1 = {} /\ scorer.set2 # {} => scorer.sim = FloatZero)
        /\ (scorer.set1 # {} /\ scorer.set2 = {} => scorer.sim = FloatZero)

\* a text of punctuation only, scored against itself: no tokens on either side
C10_Witness ==
    /\ scorer.step = "scored"
    /\ scorer.text1 = <<"!", " ", "!">>
    /\ scorer.text2 = scorer.text1
    /\ scorer.set1 = {}
    /\ scorer.sim = FloatOne

-----------------------------------------------------------------------------
(* Properties of check_entry (SpecMatcher) *)

\* the trimmed question and answer of the candidate and of the reference entry
\* of a Match Record (reference entry, candidate entry, kind, score)
RecInputQ(r) == Strip(Get(r[2].d, "question").s)
RecInputA(r) == Strip(Get(r[2].d, "answer").s)
RecRefQ(r) == Strip(r[1].d[cfg.q_key].s)
RecRefA(r) == Strip(r[1].d[cfg.a_key].s)
RecExact(r) == RecInputQ(r) = RecRefQ(r) \/ RecInputA(r) = RecRefA(r)
RecQSim(r) == jaccard_similarity(tokenize(RecRefQ(r)), tokenize(RecInputQ(r)))
RecASim(r) == jaccard_similarity(tokenize(RecRefA(r)), tokenize(RecInputA(r)))

InUnitFrom(score, threshold) == FloatGe(score, threshold) /\ FloatGe(FloatOne, score)

\* C5: every Match Record of a worker result has score 1.0 when its kind is
\* exact_match, and otherwise the Jaccard similarity of the pair's questions
\* (jaccard_question) or answers (jaccard_answer), which lies in
\* [threshold, 1.0]; for every threshold, those <= 0 and > 1 included.
C5_ScoreWithinThreshold ==
    matcher.called =>
        \A k \in DOMAIN matcher.ret.value :
            LET r == matcher.ret.value[k]
            IN  /\ r[3] \in {"exact_match", "jaccard_question", "jaccard_answer"}
                /\ r[3] = "exact_match" => r[4] = FloatOne
                /\ r[3] = "jaccard_question" =>
                       r[4] = RecQSim(r) /\ InUnitFrom(r[4], cfg.threshold)
                /\ r[3] = "jaccard_answer" =>
                       r[4] = RecASim(r) /\ InUnitFrom(r[4], cfg.threshold)

\* threshold 0.5: a jaccard_answer record whose question similarity is below
\* the threshold and whose score is the answer similarity
C5_Witness ==
    /\ matcher.called
    /\ cfg.threshold = <<1, 2>>
    /\ \E k \in DOMAIN matcher.ret.value :
          LET r == matcher.ret.value[k]
          IN  /\ r[3] = "jaccard_answer"
              /\ r[4] = FloatOne
              /\ RecQSim(r) = FloatZero

\* C7: the result of one call holds at most one record per position of the
\* reference collection, in reference order (a strictly increasing map from
\* the records to the positions), every record is about the candidate, and a
\* record's kind is the first rule that fires for its pair: jaccard_question
\* implies no exact match, jaccard_answer implies no exact match and a question
\* similarity below the threshold.
C7_OneRecordPerReferenceInOrder ==
    matcher.called /\ matcher.ret.ok =>
        LET res == matcher.ret.value
        IN  \E f \in [DOMAIN res -> DOMAIN reference_data] :
               /\ \A j, k \in DOMAIN res : j < k => f[j] < f[k]
               /\ \A k \in DOMAIN res :
                     LET r == res[k]
                     IN  /\ r[1] = reference_data[f[k]]
                         /\ r[2] = JsonLoads(matcher.line_file[1])
                         /\ r[3] \in {"exact_match", "jaccard_question", "jaccard_answer"}
                         /\ r[3] = "exact_match" => RecExact(r)
                         /\ r[3] = "jaccard_question" =>
                                ~RecExact(r) /\ FloatGe(RecQSim(r), cfg.threshold)
                         /\ r[3] = "jaccard_answer" =>
                                /\ ~RecExact(r)
                                /\ ~FloatGe(RecQSim(r), cfg.threshold)
                                /\ FloatGe(RecASim(r), cfg.threshold)

\* two reference entries, a jaccard_answer record for the first and a
\* jaccard_question record for the second
C7_Witness ==
    /\ matcher.called
    /\ matcher.ret.ok
    /\ Len(reference_data) = 2
    /\ Len(matcher.ret.value) = 2
    /\ matcher.ret.value[1][3] = "jaccard_answer"
    /\ matcher.ret.value[2][3] = "jaccard_question"

\* a reference entry as the data model has it: a dict whose question and
\* answer are strings
RefWellTyped(e) ==
    /\ e.t = "obj"
    /\ {cfg.q_key, cfg.a_key} \subseteq DOMAIN e.d
    /\ e.d[cfg.q_key].t = "str"
    /\ e.d[cfg.a_key].t = "str"

\* C6: a candidate whose trimmed question equals the trimmed question of the
\* reference entry at position i gets, for that entry, a record of kind
\* exact_match with score 1.0, whatever its answer field holds and wherever the
\* entry stands in the reference collection.
C6_ExactQuestionWhateverAnswer ==
    /\ matcher.called
    /\ \A i \in DOMAIN reference_data : RefWellTyped(reference_data[i])
    /\ matcher.line_file[1].kind = "json"
    /\ matcher.line_file[1].doc.t = "obj"
    /\ "question" \in DOMAIN matcher.line_file[1].doc.d
    /\ matcher.line_file[1].doc.d["question"].t = "str"
    =>
    \A i \in DOMAIN reference_data :
        Strip(Get(matcher.line_file[1].doc.d, "question").s)
                = Strip(reference_data[i].d[cfg.q_key].s)
        =>
        /\ matcher.ret.ok
        /\ \E k \in DOMAIN matcher.ret.value :
              matcher.ret.value[k] =
                  <<reference_data[i], matcher.line_file[1].doc, "exact_match", FloatOne>>

\* a line that parses into a record: a JSON object whose question and answer,
\* where present, are strings
ParsesAsRecord(line) ==
    /\ line.kind = "json"
    /\ line.doc.t = "obj"
    /\ Get(line.doc.d, "question").t = "str"
    /\ Get(line.doc.d, "answer").t = "str"

\* C3: for a candidate line that cannot be parsed as a record (text that is not
\* JSON, JSON that is not an object, an object whose question or answer is not
\* a string) check_entry returns no Match Record and prints a diagnostic; it
\* raises nothing.
C3_UnparsableIsLocalError ==
    matcher.called /\ ~ParsesAsRecord(matcher.line_file[1]) =>
        /\ matcher.ret.ok
        /\ matcher.ret.value = <<>>
        /\ matcher.ret.printed # <<>>

-----------------------------------------------------------------------------
(* Properties of a run of main() (Spec) *)

\* the candidate entries of a run: the non-blank lines of the input files, in
\* file-list order and line order, each with its file
Tasks == SelectSeq(AllLines(inputFiles), LAMBDA lf : lf[1].kind # "blank")

\* what the Entry Matcher returns for each candidate alone
AloneOf(tasks) ==
    [i \in DOMAIN tasks |->
        check_entry(reference_data, tasks[i], cfg.q_key, cfg.a_key, cfg.threshold)]
Alone == AloneOf(Tasks)

\* the results of the tasks numbered by order, flattened in that order
ReportOf(alone, order) == Flatten([k \in DOMAIN order |-> alone[order[k]].value])

\* the report of a run that matches the candidates one after the other
SerialReport == LET alone == Alone IN ReportOf(alone, [i \in DOMAIN alone |-> i])

Count(seq, x) == Cardinality({k \in DOMAIN seq : seq[k] = x})
SameBag(s1, s2) ==
    /\ Len(s1) = Len(s2)
    /\ \A k \in DOMAIN s1 : Count(s1, s1[k]) = Count(s2, s1[k])

\* the records of the k-th arrival stand in the written report where the
\* results that arrived before it end
StandsInOutput(alone, k) ==
    LET offset == Len(ReportOf(alone, SubSeq(arrived, 1, k - 1)))
        value == alone[arrived[k]].value
    IN  SubSeq(output.data, offset + 1, offset + Len(value)) = OutputData(value)

\* the run got past the loader and ended in the pool: main() raised the
\* exception of task error.i
CrashedInRun == pc = "crashed" /\ error.i # 0

\* C1: whatever the pool size, a run that ends with a report ends with the
\* records of the serial run, each as often (pool size 1 gives them in the
\* serial order); and whether a run ends with a report at all depends on the
\* inputs only: it does when no candidate raises and does not when one does.
C1_PoolSizeIndependentReport ==
    /\ pc = "done" =>
          \A alone \in {Alone} :
              \A serial \in {OutputData(ReportOf(alone, [i \in DOMAIN alone |-> i]))} :
                  /\ \A i \in DOMAIN alone : alone[i].ok
                  /\ output.written
                  /\ SameBag(output.data, serial)
                  /\ cfg.num_processes = 1 => output.data = serial
    /\ CrashedInRun => ~Alone[error.i].ok

\* a pool of two processes whose report holds the serial run's records in
\* another order
C1_Witness ==
    /\ pc = "done"
    /\ cfg.num_processes = 2
    /\ Len(output.data) = 3
    /\ output.data # OutputData(SerialReport)

\* C2: a candidate line that is not JSON gives an empty result, not an
\* exception, and a diagnostic naming its file and the line; it never ends the
\* run; and in the report of a finished run the records of every candidate
\* that follows such a line stand where its result arrived.
C2_MalformedJsonIsLocal ==
    \A tasks \in {Tasks} :
        /\ \A k \in DOMAIN outq :
              tasks[outq[k].i][1].kind = "malformed" =>
                  /\ outq[k].ok
                  /\ outq[k].value = <<>>
                  /\ \E m \in DOMAIN stdout :
                        stdout[m] = InvalidJsonMsg(tasks[outq[k].i][2], tasks[outq[k].i][1])
        /\ CrashedInRun => tasks[error.i][1].kind # "malformed"
        /\ pc = "done" =>
              \A alone \in {Alone} :
                  \A j, i \in DOMAIN tasks :
                      j < i /\ tasks[j][1].kind = "malformed" =>
                          /\ \E m \in DOMAIN stdout :
                                stdout[m] = InvalidJsonMsg(tasks[j][2], tasks[j][1])
                          /\ alone[i].ok
                          /\ \E k \in DOMAIN arrived :
                                arrived[k] = i /\ StandsInOutput(alone, k)

\* a finished run whose first candidate is not JSON and whose second gives the
\* two records of the report
C2_Witness ==
    /\ pc = "done"
    /\ Len(Tasks) = 2
    /\ Tasks[1][1] = MalformedLine
    /\ Tasks[2][1] = GoodLine1
    /\ Len(output.data) = 2

\* the task numbers the pool holds, from submission to arrival
InPool ==
    [k \in DOMAIN taskq |-> taskq[k].i]
    \o SelectSeq([w \in DOMAIN workers |-> workers[w].i], LAMBDA i : i # 0)
    \o [k \in DOMAIN outq |-> outq[k].i]
    \o arrived

\* C8: every non-blank line is submitted as one task and no other is; no task
\* is lost or doubled on its way; the report is at every moment the flattening
\* of the arrived results in arrival order; and when the run completes, as
\* many results have arrived as tasks were submitted, each task's once, and the
\* file holds that report.
C8_ReportIsFlatteningInArrivalOrder ==
    \A tasks \in {Tasks}, alone \in {Alone}, inPool \in {InPool} :
        /\ submitted <= Len(tasks)
        /\ \A k \in DOMAIN taskq : taskq[k].line_file = tasks[taskq[k].i]
        /\ \A w \in DOMAIN workers :
              workers[w] # NoTask => workers[w].line_file = tasks[workers[w].i]
        /\ \A k \in DOMAIN outq :
              /\ outq[k].ok = alone[outq[k].i].ok
              /\ outq[k].value = alone[outq[k].i].value
        /\ pc = "run" => /\ Len(inPool) = submitted
                         /\ \A i \in 1..submitted : Count(inPool, i) = 1
        /\ all_contaminated = ReportOf(alone, arrived)
        /\ pc = "done" =>
              /\ submitted = Len(tasks)
              /\ length = submitted
              /\ Len(arrived) = submitted
              /\ \A i \in 1..submitted : Count(arrived, i) = 1
              /\ output.written
              /\ output.data = OutputData(ReportOf(alone, arrived))

\* a finished run whose second task's result arrived first, the first task's
\* two records after it
C8_Witness ==
    /\ pc = "done"
    /\ arrived = <<2, 1>>
    /\ Len(Alone[1].value) = 2
    /\ Len(Alone[2].value) = 1
    /\ output.data = OutputData(Alone[2].value \o Alone[1].value)

\* C4: task isolation.  When the run has ended, the report holds for every
\* candidate that matches on its own the records the Entry Matcher returns for
\* it alone, whether or not another candidate of the run failed.
C4_TaskIsolation ==
    pc = "done" \/ CrashedInRun =>
        \A alone \in {Alone} :
            \A i \in DOMAIN alone :
                alone[i].ok /\ alone[i].value # <<>> =>
                    /\ output.written
                    /\ \E k \in DOMAIN arrived :
                          arrived[k] = i /\ StandsInOutput(alone, k)

-----------------------------------------------------------------------------
(* Properties of the reference loader (SpecLoader) *)

\* the documents the loader has gone through: the JSON lines of the file read
\* so far, or the entries of the dataset
ConsumedDocs ==
    IF cfg.reference_type = "jsonl"
    THEN LET read == SelectSeq(SubSeq(refSource, 1, refIdx),
                               LAMBDA l : l.kind = "json")
         IN  [k \in DOMAIN read |-> read[k].doc]
    ELSE SubSeq(refSource, 1, refIdx)

IsRecord(doc) == doc.t = "obj"
LacksKey(doc) == IsRecord(doc) /\ ~({cfg.q_key, cfg.a_key} \subseteq DOMAIN doc.d)
HasBothKeys(doc) == IsRecord(doc) /\ {cfg.q_key, cfg.a_key} \subseteq DOMAIN doc.d

\* what is kept of a record: the record (file), its two keys (catalog)
KeptAs(doc) ==
    IF cfg.reference_type = "jsonl"
    THEN doc
    ELSE Obj([k \in {cfg.q_key, cfg.a_key} |-> doc.d[k]])

MissingKeysReports ==
    SelectSeq(stdout, LAMBDA m : m.msg = "Entry missing keys")

\* the part of the claim that holds of both loaders: the records that lack a
\* key are left out, those with both keys are kept in load order, doubles
\* included, a record that lacks a key never stops the loader, and the catalog
\* loader reports each record it leaves out
LoaderKeepsAndSkips ==
    /\ LET keptDocs == SelectSeq(ConsumedDocs, HasBothKeys)
           records == SelectSeq(reference_data, IsRecord)
       IN  records = [k \in DOMAIN keptDocs |-> KeptAs(keptDocs[k])]
    /\ pc = "crashed" => /\ refIdx < Len(refSource)
                         /\ ~IsRecord(refSource[refIdx + 1].doc)
    /\ pc = "run" => refIdx = Len(refSource)
    /\ cfg.reference_type = "hf" =>
          LET skipped == SelectSeq(ConsumedDocs, LacksKey)
          IN  MissingKeysReports = [k \in DOMAIN skipped |->
                 [msg |-> "Entry missing keys", file |-> "",
                  line |-> JsonLine(skipped[k])]]

\* C9 as stated: ... and a record left out of a line-delimited file comes with
\* a diagnostic.
C9_SkipHasDiagnostic ==
    /\ LoaderKeepsAndSkips
    /\ cfg.reference_type = "jsonl" =>
          \A k \in DOMAIN ConsumedDocs :
              LacksKey(ConsumedDocs[k]) =>
                  \E m \in DOMAIN stdout : stdout[m].line = JsonLine(ConsumedDocs[k])

\* C9 as amended: ... and a record left out of a line-delimited file is left
\* out silently: the file loader prints only for the lines that are not JSON.
C9_SkipSilentInFile ==
    /\ LoaderKeepsAndSkips
    /\ cfg.reference_type = "jsonl" =>
          /\ MissingKeysReports = <<>>
          /\ \A m \in DOMAIN stdout : stdout[m].line.kind # "json"
          /\ LET notJson == SelectSeq(SubSeq(refSource, 1, refIdx),
                                      LAMBDA l : l.kind # "json")
             IN  SelectSeq(stdout, LAMBDA m : m.msg = "Invalid JSON in reference JSONL")
                    = [k \in DOMAIN notJson |->
                         [msg |-> "Invalid JSON in reference JSONL", file |-> "",
                          line |-> notJson[k]]]

\* a file loaded to its end: a record without an answer left out with nothing
\* printed, the same record kept twice
C9_Witness ==
    /\ pc = "run"
    /\ cfg.reference_type = "jsonl"
    /\ cfg.q_key = "question"
    /\ refSource = <<JsonLine(RefE1), JsonLine(RefNoAnswer), JsonLine(RefE1)>>
    /\ reference_data = <<RefE1, RefE1>>
    /\ Len(stdout) = 3

=============================================================================
